---- MODULE Spec2Model ----
(***************************************************************************)
(* Model of the gist viewer widget (assets/js/Gists.js and the page shell  *)
(* that mounts it).                                                        *)
(*                                                                         *)
(* JavaScript strings are sequences of tokens.  Text the program inspects  *)
(* character by character (descriptions, filter text, timestamps, numbers  *)
(* formatted into text, the user name) is kept one character per token;    *)
(* the fixed pieces of template literals are kept as one token each.       *)
(***************************************************************************)
EXTENDS Integers, Sequences, FiniteSets, Bags, TLC

(* ------------------------------ bounds --------------------------------- *)

\* longest JSON array a response carries
MaxLen == 2

\* number of render() invocations explored
MaxRenders == 2

\* longest filter text tried against the filter predicate
MaxFilterLen == 2

\* longest array handed to the sort alone
MaxSortLen == 4

(* --------------------------- string helpers ---------------------------- *)

\* String.prototype.includes: needle occurs in hay as a contiguous run
Includes(hay, needle) ==
  \E i \in 1..(Len(hay) + 1) :
      /\ i + Len(needle) - 1 <= Len(hay)
      /\ SubSeq(hay, i, i + Len(needle) - 1) = needle

Upper == <<"A","B","C","D","E","F","G","H","I","J","K","L","M",
           "N","O","P","Q","R","S","T","U","V","W","X","Y","Z">>

Lower == <<"a","b","c","d","e","f","g","h","i","j","k","l","m",
           "n","o","p","q","r","s","t","u","v","w","x","y","z">>

\* lower-case form of one character
LowerChar(c) ==
  IF \E i \in 1..26 : Upper[i] = c
    THEN Lower[CHOOSE i \in 1..26 : Upper[i] = c]
    ELSE c

\* String.prototype.toLowerCase
toLowerCase(s) == [i \in 1..Len(s) |-> LowerChar(s[i])]

Digits == <<"0","1","2","3","4","5","6","7","8","9">>

\* a non-negative number formatted by a template literal
RECURSIVE NumToStr(_)
NumToStr(n) ==
  IF n < 10 THEN <<Digits[n + 1]>>
            ELSE NumToStr(n \div 10) \o <<Digits[(n % 10) + 1]>>

\* value of one decimal digit character
DigitVal(c) == (CHOOSE i \in 1..10 : Digits[i] = c) - 1

\* a run of decimal digits read as a number
RECURSIVE StrToNum(_)
StrToNum(s) ==
  IF Len(s) = 0 THEN 0
  ELSE 10 * StrToNum(SubSeq(s, 1, Len(s) - 1)) + DigitVal(s[Len(s)])

(* ----------------------------- JS values ------------------------------- *)

\* a JavaScript value as far as the widget looks at it: its typeof tag and,
\* for strings and numbers, its content
JsString(s) == [type |-> "string", str |-> s, num |-> 0]

JsNumber(n) == [type |-> "number", str |-> <<>>, num |-> n]

JsNull == [type |-> "object", str |-> <<"null">>, num |-> 0]

JsUndefined == [type |-> "undefined", str |-> <<>>, num |-> 0]

JsObject == [type |-> "object", str |-> <<"{}">>, num |-> 0]

\* ToBoolean: null, undefined, "" and 0 are falsy
Truthy(v) ==
  CASE v.type = "string"    -> Len(v.str) > 0
    [] v.type = "number"    -> v.num # 0
    [] v.type = "undefined" -> FALSE
    [] OTHER                -> v # JsNull

(* ------------------------------ the data ------------------------------- *)

\* ISO 8601 timestamps (YYYY-MM-DDTHH:MM:SSZ), one character per token
Ts20230102 ==
  <<"2","0","2","3","-","0","1","-","0","2","T","0","0",":","0","0",":","0","0","Z">>

Ts20230501 ==
  <<"2","0","2","3","-","0","5","-","0","1","T","0","0",":","0","0",":","0","0","Z">>

\* the gists the API may return: two of them updated at the same instant, one
\* without a description
GistFoo ==
  [id |-> "1", description |-> JsString(<<"F","o","o"," ","B","a","r">>),
   updated_at |-> Ts20230102]

GistBaz ==
  [id |-> "2", description |-> JsString(<<"B","a","z">>),
   updated_at |-> Ts20230501]

GistNoDesc ==
  [id |-> "3", description |-> JsNull, updated_at |-> Ts20230102]

GistPool == {GistFoo, GistBaz, GistNoDesc}

\* every sequence over S of length at most n
SeqsUpTo(S, n) == UNION {[1..k -> S] : k \in 0..n}

\* the JSON arrays a response body may hold
Arrays == SeqsUpTo(GistPool, MaxLen)

(* ------------------------- new Date(updated_at) ------------------------ *)

\* days from 1970-01-01 to the civil date y-m-d (proleptic Gregorian)
DaysFromCivil(y, m, d) ==
  LET yy  == IF m <= 2 THEN y - 1 ELSE y
      era == yy \div 400
      yoe == yy - era * 400
      mp  == IF m > 2 THEN m - 3 ELSE m + 9
      doy == (153 * mp + 2) \div 5 + d - 1
      doe == yoe * 365 + yoe \div 4 - yoe \div 100 + doy
  IN  era * 146097 + doe - 719468

\* new Date(s) for an ISO 8601 UTC timestamp, as a number: the instant in
\* seconds since the epoch (the modelled timestamps carry no milliseconds)
DateOf(s) ==
  LET y  == StrToNum(SubSeq(s, 1, 4))
      mo == StrToNum(SubSeq(s, 6, 7))
      d  == StrToNum(SubSeq(s, 9, 10))
      h  == StrToNum(SubSeq(s, 12, 13))
      mi == StrToNum(SubSeq(s, 15, 16))
      se == StrToNum(SubSeq(s, 18, 19))
  IN  DaysFromCivil(y, mo, d) * 86400 + h * 3600 + mi * 60 + se

(* ----------------------------- gistsApiUrl ----------------------------- *)

Unreserved ==
  {Upper[i] : i \in 1..26} \cup {Lower[i] : i \in 1..26} \cup
  {Digits[i] : i \in 1..10} \cup {"-", "_", ".", "!", "~", "*", "'", "(", ")"}

\* the escape of one reserved ASCII character
Escape(c) ==
  CASE c = ":" -> <<"%","3","A">>
    [] c = "+" -> <<"%","2","B">>
    [] c = " " -> <<"%","2","0">>
    [] c = "&" -> <<"%","2","6">>
    [] c = "=" -> <<"%","3","D">>
    [] c = "%" -> <<"%","2","5">>
    [] c = "/" -> <<"%","2","F">>
    [] c = "?" -> <<"%","3","F">>
    [] c = "#" -> <<"%","2","3">>

RECURSIVE encodeURIComponent(_)
encodeURIComponent(s) ==
  IF Len(s) = 0 THEN <<>>
  ELSE (IF Head(s) \in Unreserved THEN <<Head(s)>> ELSE Escape(Head(s)))
       \o encodeURIComponent(Tail(s))

\* the URL with the timestamp appended as it is
gistsApiUrlRawSince(username, limit, sinceDate) ==
  LET url == <<"https://api.github.com/users/">> \o username
             \o <<"/gists?per_page=">> \o NumToStr(limit)
  IN  IF Truthy(sinceDate) THEN url \o <<"&since=">> \o sinceDate.str ELSE url

gistsApiUrl(username, limit, sinceDate) ==
  LET url == <<"https://api.github.com/users/">> \o username
             \o <<"/gists?per_page=">> \o NumToStr(limit)
  IN  IF Truthy(sinceDate)
        THEN url \o <<"&since=">> \o encodeURIComponent(sinceDate.str)
        ELSE url

(* ------------------------------ requestJson ---------------------------- *)

\* an Error object and its conversion to text by a template literal
MkError(name, message) == [name |-> name, message |-> message]

ErrToString(err) == <<err.name, ": ">> \o err.message

NoError == MkError("", <<>>)

\* a parsed JSON value: an array of gists or something else
JsonArray(items) == [isArray |-> TRUE, items |-> items]

JsonOther == [isArray |-> FALSE, items |-> <<>>]

\* a response body: its text and what JSON.parse makes of it
ArrayBody(items) ==
  [text  |-> <<"[">> \o [i \in 1..Len(items) |-> items[i].id] \o <<"]">>,
   parse |-> "array", items |-> items]

ObjectBody ==
  [text  |-> <<"{\"message\":\"API rate limit exceeded\"}">>,
   parse |-> "object", items |-> <<>>]

TextBody == [text |-> <<"Not Found">>, parse |-> "invalid", items |-> <<>>]

\* what the network does with one request: the transport rejects, or a
\* response arrives with a status line and a body
Rejection ==
  [rejects |-> TRUE, status |-> 0, statusText |-> <<>>, body |-> TextBody]

Response(status, statusText, body) ==
  [rejects |-> FALSE, status |-> status, statusText |-> statusText, body |-> body]

OkResponses ==
  {Response(200, <<"OK">>, b) : b \in {ArrayBody(a) : a \in Arrays} \cup {ObjectBody, TextBody}}

ErrorResponses ==
  {Response(404, <<"Not Found">>, b) : b \in {ObjectBody, TextBody}} \cup
  {Response(500, <<"Internal Server Error">>, b) : b \in {ObjectBody, TextBody}}

Outcomes == {Rejection} \cup OkResponses \cup ErrorResponses

\* Response.ok
RespOk(out) == out.status >= 200 /\ out.status <= 299

Return(v) == [threw |-> FALSE, err |-> NoError, value |-> v]

Throw(e) == [threw |-> TRUE, err |-> e, value |-> JsonOther]

\* the message without the response body
HttpErrorMessageNoBody(url, out) ==
  <<"HTTP error: ">> \o NumToStr(out.status) \o <<" - ">> \o out.statusText
  \o <<". URL: ">> \o url \o <<". Response: ">>

\* the message of the error requestJson throws on a non-success status
HttpErrorMessage(url, out) ==
  <<"HTTP error: ">> \o NumToStr(out.status) \o <<" - ">> \o out.statusText
  \o <<". URL: ">> \o url \o <<". Response: ">> \o out.body.text

\* resp.json()
RespJson(body) ==
  CASE body.parse = "array"  -> Return(JsonArray(body.items))
    [] body.parse = "object" -> Return(JsonOther)
    [] OTHER -> Throw(MkError("SyntaxError", <<"Unexpected token in JSON">>))

\* requestJson(url) when the network answers the request with out
requestJson(url, out) ==
  IF out.rejects THEN Throw(MkError("TypeError", <<"Failed to fetch">>))
  ELSE IF ~RespOk(out) THEN Throw(MkError("Error", HttpErrorMessage(url, out)))
  ELSE RespJson(out.body)

(* ------------------------- the Gists component ------------------------- *)

VARIABLES
  mounted,     \* the component has been mounted
  filter,      \* prop filter: the page's filter text
  gists,       \* data: the stored list, or null
  loading,     \* data
  errored,     \* data
  errorMsg,    \* data
  inflight,    \* the requests fetch() has issued that have not settled: a bag of URLs
  renders,     \* number of render() invocations so far
  requests,    \* number of fetch() calls so far
  triggers,    \* number of render() invocations made from outside the component
  ev,          \* the step taken last, with the network's answer for a settlement
  baseMsg,     \* errorMsg when the oldest render() of the current overlap was invoked
  overlapped,  \* a render() was invoked while an earlier one was in flight
  call         \* the last call of a pure function: its arguments and result

vars ==
  <<mounted, filter, gists, loading, errored, errorMsg, inflight, renders,
    requests, triggers, ev, baseMsg, overlapped, call>>

\* the page shell's USERNAME
USERNAME == <<"d","e","a","d","f","l","o","w","e","r","s">>

\* data().sinceDateThreshold
sinceDateThreshold ==
  JsString(<<"2","0","2","2","-","0","1","-","0","1","T","0","0",":","0","0",":","0","0","Z">>)

\* this.gists: null or an array
Null == [isNull |-> TRUE, items |-> <<>>]

ArrayOf(items) == [isNull |-> FALSE, items |-> items]

\* the component's reactive data as one record
Data == [gists |-> gists, loading |-> loading, errored |-> errored, errorMsg |-> errorMsg]

\* data()
InitialData == [gists |-> Null, loading |-> TRUE, errored |-> FALSE, errorMsg |-> <<>>]

\* the comparator with its operands swapped: oldest first
compareAscending(a, b) == DateOf(a.updated_at) - DateOf(b.updated_at)

\* a comparator that never answers 0: equal instants count as out of order
compareNeverEqual(a, b) ==
  IF DateOf(a.updated_at) > DateOf(b.updated_at) THEN -1 ELSE 1

\* the comparator render() hands to Array.prototype.sort
compareUpdated(a, b) == DateOf(b.updated_at) - DateOf(a.updated_at)

\* one insertion of a stable sort: x goes before the first element the
\* comparator orders after it
RECURSIVE InsertSorted(_, _)
InsertSorted(s, x) ==
  IF Len(s) = 0 THEN <<x>>
  ELSE IF compareUpdated(Head(s), x) > 0 THEN <<x>> \o s
  ELSE <<Head(s)>> \o InsertSorted(Tail(s), x)

\* Array.prototype.sort with render()'s comparator (the sort is stable)
RECURSIVE SortGists(_)
SortGists(s) ==
  IF Len(s) = 0 THEN <<>>
  ELSE InsertSorted(SortGists(SubSeq(s, 1, Len(s) - 1)), s[Len(s)])

\* renderStart without the line that clears the previous results
renderStartKeepsList(d) == [d EXCEPT !.loading = TRUE, !.errored = FALSE]

\* renderStart without the line that resets errored
renderStartKeepsErrored(d) == [d EXCEPT !.loading = TRUE, !.gists = Null]

\* render(), up to its await: the data the synchronous prefix leaves
renderStart(d) == [d EXCEPT !.loading = TRUE, !.errored = FALSE, !.gists = Null]

\* render(), the try block after the await, for a value that is an array
renderTry(d, fetched) == [d EXCEPT !.gists = ArrayOf(SortGists(fetched.items))]

\* the catch block without the line that sets errored
renderCatchKeepsErrored(d, err) ==
  [d EXCEPT !.gists = Null,
            !.errorMsg = <<"Unable to fetch Gists API data. Error: ">> \o ErrToString(err)]

\* render(), the catch block
renderCatch(d, err) ==
  [d EXCEPT !.gists = Null, !.errored = TRUE,
            !.errorMsg = <<"Unable to fetch Gists API data. Error: ">> \o ErrToString(err)]

\* render() without its finally block
renderFinallyKeepsLoading(d) == d

\* render(), the finally block
renderFinally(d) == [d EXCEPT !.loading = FALSE]

\* the error render() catches for the result res of requestJson, if any: the
\* one requestJson threw, or the TypeError of calling sort on a non-array
Caught(res) ==
  IF res.threw THEN res.err
  ELSE MkError("TypeError", <<"fetchedGists.sort is not a function">>)

Fails(res) == res.threw \/ ~res.value.isArray

\* render(), from the await to its end, when requestJson ended with res
renderSettle(d, res) ==
  renderFinally(IF Fails(res) THEN renderCatch(d, Caught(res))
                              ELSE renderTry(d, res.value))

\* contains comparing the description as written against the lower-cased filter
containsCaseSensitive(value, f) ==
  IF f = <<>> THEN [threw |-> FALSE, ret |-> TRUE]
  ELSE LET description == IF Truthy(value) THEN value ELSE JsString(<<>>)
       IN  IF description.type # "string"
             THEN [threw |-> FALSE, ret |-> FALSE]
             ELSE [threw |-> FALSE, ret |-> Includes(description.str, toLowerCase(f))]

\* contains(value, filter): whether it throws and what it returns.  Calling
\* toLowerCase on something that is not a string throws a TypeError.
contains(value, f) ==
  IF f = <<>> THEN [threw |-> FALSE, ret |-> TRUE]
  ELSE LET description == IF Truthy(value) THEN value ELSE JsString(<<>>)
       IN  IF description.type # "string"
             THEN [threw |-> FALSE, ret |-> FALSE]
             ELSE [threw |-> FALSE,
                   ret   |-> Includes(toLowerCase(description.str), toLowerCase(f))]

(* ----------------------------- the template ---------------------------- *)

\* The page loads Vue 3.2.  Vue 3 evaluates the v-if of an element before the
\* v-for of the same element, so the condition of
\*   tr v-for="gist in gists" v-if="contains(gist.description, filter)"
\* is evaluated once, outside the loop, where gist is looked up on the
\* component instance.

\* gists.filter(gist => contains(gist.description, filter)), for the list items
\* and the filter text f
RowsOf(items, f) ==
  LET Matches(g) == contains(g.description, f).ret
  IN  SelectSeq(items, Matches)

\* gist as the tr's v-if reads it: the instance has no prop, data or method of
\* that name
InstanceGist == JsUndefined

\* the tr's v-if: reading a property of undefined or null throws a TypeError
RowCondition ==
  IF InstanceGist = JsUndefined \/ InstanceGist = JsNull
    THEN [threw |-> TRUE, ret |-> FALSE]
    ELSE contains(InstanceGist.description, filter)

\* the condition that guards the table and both "no gists" paragraphs
ListReady == ~errored /\ ~loading /\ ~gists.isNull

\* the render function throws: the table is rendered, so the tr's v-if is
\* evaluated; Vue then renders the component as an empty comment node
RenderThrows == ListReady /\ RowCondition.threw

\* div v-if="errored"
ShowsError == errored

\* p v-if="loading", inside the v-else of the error block
ShowsLoading == ~errored /\ loading

\* table v-if="!loading && gists"
ShowsTable == ListReady /\ ~RenderThrows

\* the rows of the table on the page
Rows == IF ShowsTable /\ RowCondition.ret THEN gists.items ELSE <<>>

\* p v-if="!loading && gists && gists.filter(...).length === 0"
ShowsNoMatchMsg ==
  ListReady /\ ~RenderThrows /\ Len(RowsOf(gists.items, filter)) = 0

\* p v-else-if="!loading && gists && gists.length === 0"
ShowsNoGistsMsg ==
  /\ ListReady /\ ~RenderThrows
  /\ ~(Len(RowsOf(gists.items, filter)) = 0)
  /\ Len(gists.items) = 0

(* ------------------------------- actions ------------------------------- *)

\* the filter texts the page's input box produces
FilterValues == {<<>>, <<"f","o","o">>, <<"q">>}

Init ==
  /\ mounted = FALSE
  /\ filter = <<>>
  /\ gists = InitialData.gists
  /\ loading = InitialData.loading
  /\ errored = InitialData.errored
  /\ errorMsg = InitialData.errorMsg
  /\ inflight = EmptyBag
  /\ renders = 0
  /\ requests = 0
  /\ triggers = 0
  /\ ev = [op |-> "init", out |-> <<>>]
  /\ baseMsg = InitialData.errorMsg
  /\ overlapped = FALSE
  /\ call = [fn |-> "none"]

\* the component's data after a step
SetData(d) ==
  /\ gists' = d.gists
  /\ loading' = d.loading
  /\ errored' = d.errored
  /\ errorMsg' = d.errorMsg

\* the URL render() builds
RenderUrl == gistsApiUrl(USERNAME, 100, sinceDateThreshold)

\* render() up to its await: build the URL, reset the data, issue the request
RenderPrefix ==
  /\ SetData(renderStart(Data))
  /\ inflight' = inflight (+) SetToBag({RenderUrl})
  /\ renders' = renders + 1
  /\ requests' = requests + 1
  /\ baseMsg' = IF inflight = EmptyBag THEN errorMsg ELSE baseMsg
  /\ overlapped' = (inflight # EmptyBag)

\* mounted(): the one automatic render()
Mount ==
  /\ ~mounted
  /\ mounted' = TRUE
  /\ RenderPrefix
  /\ ev' = [op |-> "mount", out |-> <<>>]
  /\ UNCHANGED <<filter, triggers, call>>

\* render() invoked again from outside the component
Rerender ==
  /\ mounted
  /\ renders < MaxRenders
  /\ RenderPrefix
  /\ triggers' = triggers + 1
  /\ ev' = [op |-> "render", out |-> <<>>]
  /\ UNCHANGED <<mounted, filter, call>>

\* the same, invoked only once the previous cycle has settled
RerenderSeq == inflight = EmptyBag /\ Rerender

\* Settle with a second request issued when the first one failed
SettleWithRetry(url, out) ==
  /\ BagIn(url, inflight)
  /\ SetData(renderSettle(Data, requestJson(url, out)))
  /\ IF Fails(requestJson(url, out))
       THEN inflight' = inflight /\ requests' = requests + 1
       ELSE inflight' = inflight (-) SetToBag({url}) /\ requests' = requests
  /\ ev' = [op |-> "settle", out |-> <<out>>]
  /\ UNCHANGED <<mounted, filter, renders, triggers, baseMsg, overlapped, call>>

\* a request for url settles with out and render() runs from its await to its end
Settle(url, out) ==
  /\ BagIn(url, inflight)
  /\ SetData(renderSettle(Data, requestJson(url, out)))
  /\ inflight' = inflight (-) SetToBag({url})
  /\ ev' = [op |-> "settle", out |-> <<out>>]
  /\ UNCHANGED <<mounted, filter, renders, requests, triggers, baseMsg, overlapped, call>>

\* a filter change that also starts a fetch cycle
SetFilterRefetches(f) ==
  /\ mounted
  /\ f # filter
  /\ filter' = f
  /\ RenderPrefix
  /\ UNCHANGED <<mounted, triggers, ev, call>>

\* the page's filter text changes
SetFilter(f) ==
  /\ mounted
  /\ f # filter
  /\ filter' = f
  /\ UNCHANGED <<mounted, gists, loading, errored, errorMsg, inflight, renders,
                 requests, triggers, ev, baseMsg, overlapped, call>>

Next ==
  \/ Mount
  \/ Rerender
  \/ \E url \in BagToSet(inflight), out \in Outcomes : Settle(url, out)
  \/ \E f \in FilterValues : SetFilter(f)

Spec == Init /\ [][Next]_vars

\* fetch cycles one after another
NextSeq ==
  \/ Mount
  \/ RerenderSeq
  \/ \E url \in BagToSet(inflight), out \in Outcomes : Settle(url, out)
  \/ \E f \in FilterValues : SetFilter(f)

SpecSeq == Init /\ [][NextSeq]_vars

\* the same, where the mounted() hook runs once the component is created and
\* every request issued eventually settles
SpecSeqLive ==
  /\ SpecSeq
  /\ WF_vars(Mount)
  /\ WF_vars(\E url \in BagToSet(inflight), out \in Outcomes : Settle(url, out))

(* ---------------------- the filter predicate alone --------------------- *)

FilterChars == {"f", "o", "O", "B", "a", "z"}

\* the filter texts tried
FilterTexts == SeqsUpTo(FilterChars, MaxFilterLen)

\* the descriptions tried: strings, absent ones and non-strings
DescriptionValues ==
  {JsString(<<>>), JsString(<<"F","o","o"," ","B","a","r">>),
   JsString(<<"B","a","z">>), JsString(<<"F","O","O">>),
   JsNull, JsUndefined, JsNumber(42), JsNumber(0), JsObject}

\* one evaluation of contains(v, f)
ContainsCall(v, f) ==
  /\ call.fn = "none"
  /\ call' = [fn |-> "contains", value |-> v, filter |-> f, result |-> contains(v, f)]
  /\ UNCHANGED <<mounted, filter, gists, loading, errored, errorMsg, inflight,
                 renders, requests, triggers, ev, baseMsg, overlapped>>

NextContains == \E v \in DescriptionValues, f \in FilterTexts : ContainsCall(v, f)

SpecContains == Init /\ [][NextContains]_vars

(* ------------------------- the URL builder alone ----------------------- *)

\* the largest page size the API serves, the default of limit
MaxLimit == 100

Usernames == {USERNAME, <<"a","-","b","1">>}

\* a timestamp with a zone offset, whose + and : must be escaped
TsWithOffset ==
  <<"2","0","2","3","-","0","5","-","0","1","T","1","2",":","3","0",":","0","0","+","0","2",":","0","0">>

\* the sinceDate arguments tried: none (undefined takes the default, null) and
\* three timestamps
SinceInputs ==
  {JsNull, JsUndefined, sinceDateThreshold, JsString(Ts20230501), JsString(TsWithOffset)}

\* one evaluation of gistsApiUrl(u, l, sd)
UrlCall(u, l, sd) ==
  /\ call.fn = "none"
  /\ call' = [fn |-> "gistsApiUrl", username |-> u, limit |-> l, sinceDate |-> sd,
              url |-> gistsApiUrl(u, l, sd)]
  /\ UNCHANGED <<mounted, filter, gists, loading, errored, errorMsg, inflight,
                 renders, requests, triggers, ev, baseMsg, overlapped>>

\* the builder on its own, and the call render() makes of it when mounted
NextUrl ==
  \/ \E u \in Usernames, l \in 1..MaxLimit, sd \in SinceInputs : UrlCall(u, l, sd)
  \/ Mount

SpecUrl == Init /\ [][NextUrl]_vars

(* ---------------------------- the sort alone --------------------------- *)

\* the arrays tried
SortInputs == SeqsUpTo(GistPool, MaxSortLen)

\* fetchedGists.sort(...) on a, and the same sort applied to its result
SortCall(a) ==
  /\ call.fn = "none"
  /\ call' = [fn |-> "sort", input |-> a, once |-> SortGists(a),
              twice |-> SortGists(SortGists(a))]
  /\ UNCHANGED <<mounted, filter, gists, loading, errored, errorMsg, inflight,
                 renders, requests, triggers, ev, baseMsg, overlapped>>

NextSort == \E a \in SortInputs : SortCall(a)

SpecSort == Init /\ [][NextSort]_vars

(* ------------------------------ properties ----------------------------- *)

\* the last step of render() was its synchronous prefix
Started == ev.op \in {"mount", "render"}

\* the last step of render() was a settlement; Answer is what the network gave
Settled == ev.op = "settle"

Answer == ev.out[1]

\* the three ways a request fails
HttpFailure(out) == ~out.rejects /\ ~RespOk(out)

ParseFailure(out) == ~out.rejects /\ RespOk(out) /\ out.body.parse = "invalid"

TransportFailure(out) == out.rejects

\* a success status with a JSON array as body
ArraySuccess(out) == ~out.rejects /\ RespOk(out) /\ out.body.parse = "array"

\* C1 as stated: right after the synchronous prefix of render() the controller
\* is Loading, the stored list is absent and the stored error message is empty.
C1_StartClearsListAndMessage ==
  Started => (loading /\ ~errored /\ gists = Null /\ errorMsg = <<>>)

\* C1 as amended: every step that runs the synchronous prefix of render()
\* leaves loading = true, errored = false and the list absent, and leaves
\* errorMsg as it was.
C1_StartClearsListKeepsMessage ==
  [][renders' = renders + 1 =>
       (loading' /\ ~errored' /\ gists' = Null /\ errorMsg' = errorMsg)]_vars

\* a fetch cycle started from Errored: the earlier message is still stored
C1_StartedAfterError == ev.op = "render" /\ loading /\ ~errored /\ errorMsg # <<>>

\* C2: with fetch cycles run one after another, errored = true and a stored
\* list never hold together.
C2_ErroredExcludesList == ~(errored /\ ~gists.isNull)

\* a cycle that succeeded after an earlier cycle had failed
C2_ReadyAfterError == Settled /\ ~gists.isNull /\ ~errored /\ errorMsg # <<>>

\* the permutations of 1..n
Perms(n) == {p \in [1..n -> 1..n] : \A i, j \in 1..n : i # j => p[i] # p[j]}

\* out is a rearrangement of in (nothing dropped, added or duplicated), newest
\* first, in which entries of equal instant keep the order they had in in
StableDescending(in, out) ==
  /\ Len(out) = Len(in)
  /\ \E p \in Perms(Len(in)) :
       /\ \A i \in 1..Len(in) : out[i] = in[p[i]]
       /\ \A i, j \in 1..Len(in) :
            i < j => /\ DateOf(out[i].updated_at) >= DateOf(out[j].updated_at)
                     /\ (DateOf(out[i].updated_at) = DateOf(out[j].updated_at)
                           => p[i] < p[j])

C4_FailureEndsErrored ==
  (Settled /\ (HttpFailure(Answer) \/ ParseFailure(Answer) \/ TransportFailure(Answer))) =>
    /\ errored /\ ~loading /\ gists = Null
    /\ errorMsg # <<>>
    /\ requestJson(RenderUrl, Answer).threw
    /\ Includes(errorMsg, ErrToString(requestJson(RenderUrl, Answer).err))

\* a malformed body on a 200 response, surfaced
C4_ParseErrorSurfaced ==
  /\ Settled /\ ParseFailure(Answer) /\ Answer.status = 200
  /\ errored /\ Includes(errorMsg, <<"SyntaxError">>)

\* C5 as stated: after the API returned the empty array the controller is
\* Ready with the empty list, and the template shows the "no gists found"
\* message and not the "no gists match the filter" message.
C5_EmptyResultShowsNoGistsMsg ==
  (Settled /\ ArraySuccess(Answer) /\ Answer.body.items = <<>>) =>
    /\ ~loading /\ ~errored /\ gists = ArrayOf(<<>>)
    /\ ShowsNoGistsMsg /\ ~ShowsNoMatchMsg

\* C6: for a non-success status the error requestJson throws carries the
\* status code, the status text, the request URL and the body text, and so
\* does the controller's errorMsg.
C6_HttpErrorCarriesFourFields ==
  (Settled /\ HttpFailure(Answer)) =>
    LET res == requestJson(RenderUrl, Answer)
        Carries(msg) ==
          /\ Includes(msg, NumToStr(Answer.status))
          /\ Includes(msg, Answer.statusText)
          /\ Includes(msg, RenderUrl)
          /\ Includes(msg, <<". Response: ">> \o Answer.body.text)
    IN  /\ res.threw
        /\ Carries(res.err.message)
        /\ errored
        /\ Carries(errorMsg)

\* status 404 with body "Not Found"
C6_NotFound ==
  /\ Settled /\ Answer.status = 404 /\ Answer.body = TextBody
  /\ errored
  /\ Includes(errorMsg, <<"4","0","4">>) /\ Includes(errorMsg, <<"Not Found">>)

\* the description the predicate compares: d when it is a string, else ""
AsText(d) == IF d.type = "string" THEN d.str ELSE <<>>

\* C7: contains(d, f) never throws and is true exactly when the lower-cased
\* description (the empty string for an absent or non-string one) contains the
\* lower-cased filter.
C7_ContainsIsLowercaseSubstring ==
  call.fn = "contains" =>
    /\ ~call.result.threw
    /\ call.result.ret <=>
         Includes(toLowerCase(AsText(call.value)), toLowerCase(call.filter))

\* a match that needs both sides lower-cased
C7_MixedCaseMatch ==
  /\ call.fn = "contains"
  /\ call.value = JsString(<<"F","O","O">>)
  /\ call.filter = <<"f","O">>
  /\ call.result.ret

\* C8 as stated: with the zero-length filter contains is true for every
\* description, so when the list is shown under the empty filter every gist of
\* the stored list has its row on the page.
C8_EmptyFilterShowsAll ==
  /\ \A d \in DescriptionValues :
       ~contains(d, <<>>).threw /\ contains(d, <<>>).ret
  /\ (filter = <<>> /\ ~loading /\ ~errored /\ ~gists.isNull) => Rows = gists.items

\* what one cycle leaves on its own when its request is answered with out;
\* every field but errorMsg is overwritten when the cycle starts
Alone(out) ==
  renderSettle(renderStart([InitialData EXCEPT !.errorMsg = baseMsg]),
               requestJson(RenderUrl, out))

\* C9 as stated: once overlapping cycles have all settled, the data is what
\* the cycle that settled last would have left on its own.
C9_LastWriterWins ==
  (Settled /\ overlapped /\ inflight = EmptyBag) => Data = Alone(Answer)

\* C10: one request per render() invocation, and the render() invocations are
\* the one of mounted() plus the ones made from outside: no outcome adds one.
C10_OneRequestPerRender ==
  /\ requests = renders
  /\ renders = triggers + (IF mounted THEN 1 ELSE 0)
  /\ BagCardinality(inflight) <= requests

\* the mount's only request failed and nothing else was issued
C10_FailedWithoutRetry ==
  /\ Settled /\ errored
  /\ inflight = EmptyBag
  /\ renders = 1 /\ requests = 1

\* C11: a step that changes the filter text issues no request and leaves
\* loading, errored, errorMsg and the stored list as they were.
C11_FilterChangeKeepsData ==
  [][filter' # filter =>
       /\ requests' = requests
       /\ inflight' = inflight
       /\ renders' = renders
       /\ gists' = gists /\ loading' = loading
       /\ errored' = errored /\ errorMsg' = errorMsg]_vars

\* a filter text typed while a list of two gists is stored: the list is still
\* there, in its order, and one request was made for it
C11_FilteredStoredList ==
  /\ filter = <<"f","o","o">>
  /\ ~loading /\ ~errored /\ ~gists.isNull
  /\ Len(gists.items) = 2
  /\ requests = 1

\* a "no results" paragraph is on the page
ShowsNoResults == ShowsNoMatchMsg \/ ShowsNoGistsMsg

\* C12 as stated: the loading indicator is on the page while loading, the
\* error message while errored; otherwise the rows on the page are the gists of
\* the stored list that pass the filter predicate, in stored order, and a "no
\* results" paragraph is there exactly when no row is.
C12_ViewFollowsState ==
  /\ loading => ShowsLoading
  /\ errored => ShowsError
  /\ (~loading /\ ~errored) =>
       /\ Rows = RowsOf(gists.items, filter)
       /\ ShowsNoResults <=> (Len(Rows) = 0)

\* the two terminal states of a cycle
Ready == ~loading /\ ~errored /\ ~gists.isNull

Errored == ~loading /\ errored /\ gists.isNull

C14_SortIdempotent == call.fn = "sort" => call.twice = call.once

\* an array with two gists of the same instant that the sort had to reorder
C14_ReorderedWithTie ==
  /\ call.fn = "sort"
  /\ call.once # call.input
  /\ \E i, j \in 1..Len(call.input) :
       /\ i < j
       /\ call.input[i] # call.input[j]
       /\ DateOf(call.input[i].updated_at) = DateOf(call.input[j].updated_at)

\* reading a URL back: its page-size digits and its since value
Count(url, tok) == Cardinality({i \in 1..Len(url) : url[i] = tok})

PosOf(url, tok) == CHOOSE i \in 1..Len(url) : url[i] = tok

LimitEnd(url) ==
  IF Count(url, "&since=") > 0 THEN PosOf(url, "&since=") - 1 ELSE Len(url)

LimitText(url) == SubSeq(url, PosOf(url, "/gists?per_page=") + 1, LimitEnd(url))

SinceText(url) == SubSeq(url, PosOf(url, "&since=") + 1, Len(url))

HexDigits == {Digits[i] : i \in 1..10} \cup {"A", "B", "C", "D", "E", "F"}

\* s is a percent-encoded component: unreserved characters and %XX escapes only
PercentEncoded(s) ==
  \A i \in 1..Len(s) :
    \/ s[i] \in Unreserved
    \/ /\ s[i] = "%"
       /\ i + 2 <= Len(s)
       /\ s[i + 1] \in HexDigits /\ s[i + 2] \in HexDigits

Reserved == {":", "+", " ", "&", "=", "%", "/", "?", "#"}

\* decodeURIComponent
RECURSIVE DecodeComponent(_)
DecodeComponent(s) ==
  IF Len(s) = 0 THEN <<>>
  ELSE IF Head(s) = "%" /\ Len(s) >= 3
         /\ \E c \in Reserved : Escape(c) = SubSeq(s, 1, 3)
    THEN <<CHOOSE c \in Reserved : Escape(c) = SubSeq(s, 1, 3)>>
         \o DecodeComponent(SubSeq(s, 4, Len(s)))
    ELSE <<Head(s)>> \o DecodeComponent(Tail(s))

\* the threshold the controller is configured with: 2022-01-01T00:00:00Z
ThresholdText ==
  <<"2","0","2","2","-","0","1","-","0","1","T","0","0",":","0","0",":","0","0","Z">>

\* a timestamp was passed
Given(sd) == sd.type = "string" /\ Len(sd.str) > 0

\* C15: the URL holds per_page={limit}; without a timestamp it holds no since
\* parameter, with one it holds exactly one, percent-encoded, that decodes to
\* the timestamp; and every request of the controller asks for 100 per page
\* since 2022-01-01T00:00:00Z.
C15_UrlCarriesLimitAndSince ==
  /\ call.fn = "gistsApiUrl" =>
       /\ Includes(call.url, <<"/gists?per_page=">> \o NumToStr(call.limit))
       /\ Count(call.url, "/gists?per_page=") = 1
       /\ StrToNum(LimitText(call.url)) = call.limit
       /\ IF Given(call.sinceDate)
            THEN /\ Count(call.url, "&since=") = 1
                 /\ PercentEncoded(SinceText(call.url))
                 /\ DecodeComponent(SinceText(call.url)) = call.sinceDate.str
            ELSE Count(call.url, "&since=") = 0
  /\ \A u \in BagToSet(inflight) :
       /\ StrToNum(LimitText(u)) = 100
       /\ Count(u, "&since=") = 1
       /\ DecodeComponent(SinceText(u)) = ThresholdText

\* a timestamp whose + and : were escaped, with the controller's request out
C15_OffsetEscaped ==
  /\ call.fn = "gistsApiUrl"
  /\ call.sinceDate = JsString(TsWithOffset)
  /\ call.limit = 7
  /\ Includes(call.url, <<"%","2","B","0","2","%","3","A","0","0">>)
  /\ inflight # EmptyBag

\* C16: under any interleaving of render() invocations and settlements,
\* loading and errored are never true together.
C16_NeverLoadingAndErrored == ~(loading /\ errored)

\* one of two overlapping requests has failed while the other is still out
C16_FailedWhileOtherInFlight ==
  /\ Settled /\ errored /\ ~loading
  /\ inflight # EmptyBag

\* C17: under any interleaving, with loading and errored both false the
\* stored list is present.
C17_IdleWithoutErrorHasList == (~loading /\ ~errored) => ~gists.isNull

\* a list stored by one cycle while an overlapping one is still in flight
C17_ListWhileOtherInFlight ==
  /\ Settled /\ ~loading /\ ~errored /\ ~gists.isNull
  /\ inflight # EmptyBag

\* C18 as stated: loading is true in every state with a request in flight.
C18_LoadingWhileInFlight == inflight # EmptyBag => loading

\* C18 as amended: with a request in flight, loading is true exactly when no
\* request has settled since render() was last invoked.
C18_LoadingUntilFirstSettlement == inflight # EmptyBag => (loading <=> Started)

\* one of two overlapping requests has settled: loading is false, one request
\* is still out
C18_SettledWhileOtherInFlight ==
  /\ Settled /\ ~loading
  /\ BagCardinality(inflight) = 1
  /\ renders = 2

====
